---- MODULE Spec2Model ----
(***************************************************************************)
(* A model of the event bridge of daemon-os-ui: the GameBridge queue, the  *)
(* child document (wasm_host.html) with its local queue and its            *)
(* initializeWasm, and the createWasmCanvas lifecycle manager with the     *)
(* process-wide registries it shares between instances.                    *)
(***************************************************************************)
EXTENDS Integers, Sequences, FiniteSets, TLC

\* ------------------------------------------------------------------ bounds
\* hook instances (createWasmCanvas calls) that one behaviour may create
NumInst == 2
\* queueEventForWasm calls / QUEUE_WASM_EVENT messages in one behaviour
MaxEnq == 3
\* events the foreign module hands to a receive entry point in one behaviour
MaxEmit == 2
\* queueEventForWasm calls through the hooks' interfaces in one behaviour
MaxHookEnq == 2
\* envelopes of other senders the host window gets in one behaviour
MaxStranger == 1
\* registerProgram calls in one behaviour
MaxPrograms == 3
\* onWasmEvent calls on one GameBridge in one behaviour
MaxSubscriptions == 2

Inst == 1..NumInst
\* "no instance": an absent registry entry, an undefined global pointer
NoInst == 0

Ids == {"X", "Y"}
NoId == ""

VARIABLES
    \* --- GameBridge (one per hook instance) and the child document's queue
    jsEventQueue,       \* [Inst -> Seq(Event)]  GameBridge.jsEventQueue
    iframeEventQueue,   \* Seq(Event)            wasm_host.html iframeEventQueue
    enqueued,           \* history: the events handed to each queue, in call order
    polled,             \* history: the events polls returned, 'Empty' left out
    lastPoll,           \* history: what the last poll returned, and the queue length it saw
    \* --- createWasmCanvas, per hook instance
    hook,               \* "none" (not created), "live", "disposed" (onCleanup ran)
    uniqueId,           \* the instance identifier
    paths,              \* [js, wasm]: what jsPath() and wasmPath() returned to initialize
    error,              \* signal: <<>> is null, else the message (its parts)
    isReady,            \* signal
    bridge,             \* signal: TRUE when it holds a GameBridge
    canvasElement,      \* signal: TRUE when it holds the canvas
    canvasId,           \* the id attribute of the instance's canvas element
    wasmModule,         \* signal: "null" or "instance"
    visibilityUnsubscribers, \* how many unsubscribe functions the list holds
    pc,                 \* where initialize() is: "idle", "returned", "await", "done"
    promise,            \* the promise loadWasmViaScript made: <<"none">>, <<"pending">>,
                        \* <<"fulfilled", value>>, <<"rejected", message>>
    script,             \* the injected script: "none", "loading", "init", "finished"
    bridgeInterfaceMemo, \* the memo's value: TRUE when the accessor returns an interface
    \* --- process-wide state (window, document)
    wasmInitPromises,   \* window._wasmInitPromises: id -> whose {resolve, reject}
    wasmBridgeFuncs,    \* window._wasmBridgeFuncs: id -> whose {poll, receive}
    currentWasmEventPoller,   \* window._currentWasmEventPoller: whose poll
    currentWebEventReceiver,  \* window._currentWebEventReceiver: whose receive
    scriptTags,         \* the injected script elements in document.body, in order
    \* --- the host realm's scheduler
    microtasks,         \* initialize() continuations queued by a settled promise
    inBatch,            \* TRUE while the synchronous task that queued them still runs
    \* --- the child document (wasm_host.html)
    childJsPath,        \* URL parameter jsPath ("" when missing)
    childWasmPath,      \* URL parameter wasmPath ("" when missing)
    modelPreloaded,     \* sessionStorage 'modelPreloaded' is set
    childPc,            \* where initializeWasm() is
    childImported,      \* import(jsPath) was started
    childInitResult,    \* how the foreign init() the child called ended
    posted,             \* the messages the child posted to its parent, in order
    \* --- history
    initOrder,          \* history: the instances that claimed the globals, in order
    initResult,         \* how the foreign init() called by the instance's script ended
    disposedPending,    \* history: onCleanup found the instance's promise pending
    \* --- GameBridge, the inbound side and disposal
    wasmEventHandlers,  \* [Inst -> Seq(Handler)]  GameBridge.wasmEventHandlers
    bridgeDestroyed,    \* history: destroy() was called on the instance's GameBridge
    atDestroy,          \* history: how many events had been enqueued and polled by then
    subscriptions,      \* history: the onWasmEvent calls on each GameBridge, in order:
                        \* the handler, and whether the function returned was called
    received,           \* history: the events each handler was invoked with (serial numbers)
    lastReceive,        \* history: the last delivery: who was subscribed, who was invoked
    emitted,            \* history: how many events the foreign module has handed over
    \* --- the poll entry points the foreign module calls
    lastEntryCall,      \* history: the last call of window.wasm_event or of a shim
    hookEnqueued,       \* history: the events enqueued through each instance's interface
    hookPolled,         \* history: the events polled from each instance's bridge
    \* --- WasmIframeWrapper (the host side of one child document)
    wrapper,            \* "none", "mounted" (onMount ran), "cleaned" (onCleanup ran)
    isIframeReady,      \* signal
    wrapperError,       \* signal: <<>> is null, else the message
    wrapperHandlers,    \* the wrapper's wasmEventHandlers
    toChild,            \* messages posted to the iframe's window, not yet delivered
    hostRead,           \* how many of `posted` the host window has dispatched
    strangerPosts,      \* how many envelopes of other senders the host window got
    called,             \* history: the onReady / onError calls, in order
    sent,               \* history: the events passed to the wrapper bridge's queueEventForWasm
    \* --- ProgramProvider (the window manager)
    programs,           \* the store: Seq of [id, zIndex, isMinimized], in array order
    registered,         \* how many registerProgram calls were made (the ids given out)
    lastRaised          \* history: the program last registered, restored or brought to front

bridgeVars == <<jsEventQueue, iframeEventQueue, enqueued, polled, lastPoll>>
hookVars == <<hook, uniqueId, paths, error, isReady, bridge, canvasElement, canvasId,
              wasmModule, visibilityUnsubscribers, pc, promise, script,
              bridgeInterfaceMemo>>
windowVars == <<wasmInitPromises, wasmBridgeFuncs, currentWasmEventPoller,
                currentWebEventReceiver, scriptTags>>
schedVars == <<microtasks, inBatch>>
histVars == <<initOrder, initResult, disposedPending>>
childVars == <<childJsPath, childWasmPath, modelPreloaded, childPc, childImported,
               childInitResult, posted>>
ownBridgeVars == <<wasmEventHandlers, bridgeDestroyed, atDestroy, subscriptions>>
inboundVars == <<received, lastReceive, emitted>>
pollVars == <<lastEntryCall, hookEnqueued, hookPolled>>
frameVars == <<wrapper, isIframeReady, wrapperError, wrapperHandlers, toChild, hostRead,
               strangerPosts, called, sent>>
programVars == <<programs, registered, lastRaised>>
vars == <<bridgeVars, hookVars, windowVars, schedVars, histVars, childVars,
          ownBridgeVars, inboundVars, pollVars, frameVars, programVars>>

\* what the actions of one component leave alone
farFromBridge == <<hookVars, windowVars, schedVars, histVars, childVars,
                   ownBridgeVars, inboundVars, pollVars, frameVars, programVars>>
farFromHook == <<iframeEventQueue, enqueued, polled, lastPoll, childVars,
                 inboundVars, pollVars, frameVars, programVars>>
farFromChild == <<bridgeVars, hookVars, windowVars, schedVars, histVars,
                  ownBridgeVars, inboundVars, pollVars, frameVars, programVars>>
farFromPrograms == <<bridgeVars, hookVars, windowVars, schedVars, histVars, childVars,
                     ownBridgeVars, inboundVars, pollVars, frameVars>>

\* ------------------------------------------------------------ JSON values
\* A JSON value is a node [t, n, s, kids]: t is "num", "str", "arr", "obj" or
\* "mem" (one member of an object: s is the key, kids the one value).
JNum(n) == [t |-> "num", n |-> n, s |-> "", kids |-> <<>>]
JStr(s) == [t |-> "str", n |-> 0, s |-> s, kids |-> <<>>]
JArr(kids) == [t |-> "arr", n |-> 0, s |-> "", kids |-> kids]
JMem(k, v) == [t |-> "mem", n |-> 0, s |-> k, kids |-> <<v>>]
JObj(mems) == [t |-> "obj", n |-> 0, s |-> "", kids |-> mems]
JNull == [t |-> "null", n |-> 0, s |-> "", kids |-> <<>>]

\* the largest number a model payload carries (a colour channel)
MaxNum == 9

Quote == "\""

\* JSON.stringify: the text as a sequence of tokens (punctuation, quotes,
\* string contents and decimal numerals)
RECURSIVE JSONstringify(_), StringifyKids(_, _)
StringifyKids(kids, i) ==
    IF i > Len(kids) THEN <<>>
    ELSE (IF i > 1 THEN <<",">> ELSE <<>>)
         \o JSONstringify(kids[i]) \o StringifyKids(kids, i + 1)

JSONstringify(v) ==
    CASE v.t = "num" -> <<ToString(v.n)>>
      [] v.t = "str" -> <<Quote, v.s, Quote>>
      [] v.t = "mem" -> <<Quote, v.s, Quote, ":">> \o JSONstringify(v.kids[1])
      [] v.t = "arr" -> <<"[">> \o StringifyKids(v.kids, 1) \o <<"]">>
      [] v.t = "obj" -> <<"{">> \o StringifyKids(v.kids, 1) \o <<"}">>
      [] OTHER -> <<"null">>

\* JSON.parse: recursive descent over the tokens; ParseValue returns the value
\* read at position p and the position after it
NumeralValue(tok) == CHOOSE n \in 0..MaxNum : ToString(n) = tok

RECURSIVE ParseValue(_, _), ParseKids(_, _, _, _)
ParseKids(toks, p, close, acc) ==
    IF toks[p] = close THEN [v |-> acc, p |-> p + 1]
    ELSE IF toks[p] = "," THEN ParseKids(toks, p + 1, close, acc)
    ELSE IF close = "}"
         THEN LET r == ParseValue(toks, p + 4)
              IN  ParseKids(toks, r.p, close, Append(acc, JMem(toks[p + 1], r.v)))
         ELSE LET r == ParseValue(toks, p)
              IN  ParseKids(toks, r.p, close, Append(acc, r.v))

ParseValue(toks, p) ==
    CASE toks[p] = "[" ->
            LET r == ParseKids(toks, p + 1, "]", <<>>) IN [v |-> JArr(r.v), p |-> r.p]
      [] toks[p] = "{" ->
            LET r == ParseKids(toks, p + 1, "}", <<>>) IN [v |-> JObj(r.v), p |-> r.p]
      [] toks[p] = Quote -> [v |-> JStr(toks[p + 1]), p |-> p + 3]
      [] toks[p] = "null" -> [v |-> JNull, p |-> p + 1]
      [] OTHER -> [v |-> JNum(NumeralValue(toks[p])), p |-> p + 1]

JSONparse(toks) == ParseValue(toks, 1).v

\* ----------------------------------------------------------------- events
\* EventPayload: three optional keys. A ViewModel is absent, a string (its
\* text as tokens) or a structured object (a JSON value).
NoViewModel == [kind |-> "absent", str |-> <<>>, obj |-> JNull]
StringViewModel(toks) == [kind |-> "string", str |-> toks, obj |-> JNull]
ObjectViewModel(v) == [kind |-> "object", str |-> <<>>, obj |-> v]

EventPayload(dbg, vm, drive) == [DebugRayMarch |-> dbg, ViewModel |-> vm, Drive |-> drive]

\* JavaScript truthiness of event.ViewModel: undefined and "" are falsy
Truthy(vm) == vm.kind = "object" \/ (vm.kind = "string" /\ vm.str # <<>>)

PaletteModel ==
    JObj(<< JMem("palette", JObj(<< JMem("primary", JArr(<<JNum(1), JNum(2), JNum(MaxNum)>>)) >>)),
            JMem("addons", JArr(<< JObj(<< JMem("Lizard", JObj(<< JMem("size", JNum(1)) >>)) >>),
                                   JObj(<< JMem("RoundHead", JObj(<<>>)) >>) >>)) >>)

BuilderModel ==
    JObj(<< JMem("id", JStr("default_program")), JMem("parts", JArr(<<>>)) >>)

\* the events a caller enqueues in the model
Events ==
    << EventPayload("Normals", NoViewModel, FALSE),
       EventPayload("absent", NoViewModel, TRUE),
       EventPayload("absent", StringViewModel(JSONstringify(BuilderModel)), FALSE),
       EventPayload("absent", StringViewModel(<<>>), FALSE),
       EventPayload("absent", ObjectViewModel(PaletteModel), FALSE),
       EventPayload("absent", ObjectViewModel(BuilderModel), FALSE) >>

\* a poll returns the next event or the sentinel 'Empty'
Empty == [kind |-> "Empty", event |-> EventPayload("absent", NoViewModel, FALSE)]
Polled(e) == [kind |-> "event", event |-> e]
NoPoll == [ret |-> Empty, len |-> 0, made |-> FALSE]

\* ------------------------------------------------------------- GameBridge
\* a queue read from the wrong end (pop for shift)
ShiftFromTail(q) ==
    IF q = <<>> THEN [defined |-> FALSE, head |-> Empty.event, rest |-> <<>>]
    ELSE [defined |-> TRUE, head |-> q[Len(q)], rest |-> SubSeq(q, 1, Len(q) - 1)]

\* Array.prototype.shift: the first element, undefined on an empty array
Shift(q) ==
    IF q = <<>> THEN [defined |-> FALSE, head |-> Empty.event, rest |-> <<>>]
    ELSE [defined |-> TRUE, head |-> Head(q), rest |-> Tail(q)]

\* the normalisation left out: the event is queued as it came
ProcessedEventUnconverted(event) == event

\* the normalisation queueEventForWasm and the child's listener apply
ProcessedEvent(event) ==
    IF Truthy(event.ViewModel) /\ event.ViewModel.kind # "string"
    THEN EventPayload("absent", StringViewModel(JSONstringify(event.ViewModel.obj)), FALSE)
    ELSE event

\* the subscribers of the model: one that returns and one that throws
Handlers == {"h1", "h2"}
Throws(h) == h = "h2"

Queues == {"GameBridge", "iframe"}
Enqueues == Len(enqueued["GameBridge"]) + Len(enqueued["iframe"])
FirstInst == CHOOSE i \in Inst : \A j \in Inst : i <= j

queueEventForWasm(b, event) ==
    /\ Enqueues < MaxEnq
    /\ jsEventQueue' = [jsEventQueue EXCEPT ![b] = Append(@, ProcessedEvent(event))]
    /\ enqueued' = [enqueued EXCEPT !["GameBridge"] = Append(@, event)]
    /\ UNCHANGED <<iframeEventQueue, polled, lastPoll>>
    /\ UNCHANGED farFromBridge

pollJsEvent(b) ==
    LET r == Shift(jsEventQueue[b])
        ret == IF ~r.defined THEN Empty ELSE Polled(r.head)
    IN  /\ jsEventQueue' = [jsEventQueue EXCEPT ![b] = r.rest]
        /\ polled' = [polled EXCEPT !["GameBridge"] =
                          IF ret = Empty THEN @ ELSE Append(@, ret.event)]
        /\ lastPoll' = [lastPoll EXCEPT !["GameBridge"] =
                          [ret |-> ret, len |-> Len(jsEventQueue[b]), made |-> TRUE]]
        /\ UNCHANGED <<iframeEventQueue, enqueued>>
        /\ UNCHANGED farFromBridge

\* GameBridge.destroy()
destroy(b) ==
    /\ jsEventQueue' = [jsEventQueue EXCEPT ![b] = <<>>]
    /\ wasmEventHandlers' = [wasmEventHandlers EXCEPT ![b] = <<>>]
    /\ bridgeDestroyed' = [bridgeDestroyed EXCEPT ![b] = TRUE]
    /\ atDestroy' = [atDestroy EXCEPT ![b] = [enqueued |-> Len(hookEnqueued[b]),
                                               polled |-> Len(hookPolled[b])]]
    /\ UNCHANGED <<iframeEventQueue, enqueued, polled, lastPoll, subscriptions>>
    /\ UNCHANGED <<hookVars, windowVars, programVars, schedVars, histVars, childVars,
                   inboundVars, pollVars, frameVars>>

\* ---------------------------------------------- GameBridge: inbound side
\* handlers.forEach(handler => handler(event)) with nothing caught: the
\* handlers invoked, in order, up to and including the first that throws
RECURSIVE ForEach(_)
ForEach(handlers) ==
    IF handlers = <<>> THEN [invoked |-> <<>>, threw |-> FALSE]
    ELSE IF Throws(Head(handlers)) THEN [invoked |-> <<Head(handlers)>>, threw |-> TRUE]
    ELSE LET r == ForEach(Tail(handlers))
         IN  [invoked |-> <<Head(handlers)>> \o r.invoked, threw |-> r.threw]

\* forEach with each call in its own try/catch: every handler is invoked
ForEachCaught(handlers) == [invoked |-> handlers, threw |-> FALSE]

Range(seq) == {seq[k] : k \in 1..Len(seq)}
Times(h, seq) == Cardinality({k \in 1..Len(seq) : seq[k] = h})

\* what each handler has seen after the handlers of `invoked` got event n
ReceivedAfter(invoked, n) ==
    [h \in Handlers |-> received[h] \o [k \in 1..Times(h, invoked) |-> n]]

\* handlers.filter(h => h !== handler)
RECURSIVE Filtered(_, _)
Filtered(handlers, handler) ==
    IF handlers = <<>> THEN <<>>
    ELSE (IF Head(handlers) = handler THEN <<>> ELSE <<Head(handlers)>>)
         \o Filtered(Tail(handlers), handler)

\* GameBridge.onWasmEvent(handler)
onWasmEvent(b, handler) ==
    /\ Len(subscriptions[b]) < MaxSubscriptions
    /\ wasmEventHandlers' = [wasmEventHandlers EXCEPT ![b] = Append(@, handler)]
    /\ subscriptions' = [subscriptions EXCEPT ![b] =
                             Append(@, [handler |-> handler, unsubscribed |-> FALSE])]
    /\ UNCHANGED <<bridgeDestroyed, atDestroy>>
    /\ UNCHANGED <<bridgeVars, hookVars, windowVars, programVars, schedVars, histVars, childVars,
                   inboundVars, pollVars, frameVars>>

\* the function the k-th onWasmEvent call returned; it closes over the
\* handler of that call
unsubscribe(b, k) ==
    /\ k \in 1..Len(subscriptions[b])
    /\ wasmEventHandlers' = [wasmEventHandlers EXCEPT ![b] =
                                 Filtered(@, subscriptions[b][k].handler)]
    /\ subscriptions' = [subscriptions EXCEPT ![b][k].unsubscribed = TRUE]
    /\ UNCHANGED <<bridgeDestroyed, atDestroy>>
    /\ UNCHANGED <<bridgeVars, hookVars, windowVars, programVars, schedVars, histVars, childVars,
                   inboundVars, pollVars, frameVars>>

\* GameBridge.receiveWasmEvent(event), the event being the next the foreign
\* module produces
receiveWasmEvent(b) ==
    LET r == ForEach(wasmEventHandlers[b]) IN
    /\ emitted < MaxEmit
    /\ emitted' = emitted + 1
    /\ received' = ReceivedAfter(r.invoked, emitted + 1)
    /\ lastReceive' = [by |-> "GameBridge", threw |-> r.threw,
                        subscribed |-> Range(wasmEventHandlers[b]),
                        invoked |-> Range(r.invoked)]
    /\ UNCHANGED <<bridgeVars, hookVars, windowVars, programVars, schedVars, histVars, childVars,
                   ownBridgeVars, pollVars, frameVars>>

\* ------------------------------------------- child document: local queue
\* the 'message' listener, case QUEUE_WASM_EVENT, with message.payload = event
onQueueWasmEvent(event) ==
    /\ Enqueues < MaxEnq
    /\ iframeEventQueue' = Append(iframeEventQueue, ProcessedEvent(event))
    /\ enqueued' = [enqueued EXCEPT !["iframe"] = Append(@, event)]
    /\ UNCHANGED <<jsEventQueue, polled, lastPoll>>
    /\ UNCHANGED farFromBridge

iframePollJsEvent ==
    LET r == Shift(iframeEventQueue)
        ret == IF r.defined THEN Polled(r.head) ELSE Empty
    IN  /\ iframeEventQueue' = r.rest
        /\ polled' = [polled EXCEPT !["iframe"] =
                          IF ret = Empty THEN @ ELSE Append(@, ret.event)]
        /\ lastPoll' = [lastPoll EXCEPT !["iframe"] =
                          [ret |-> ret, len |-> Len(iframeEventQueue), made |-> TRUE]]
        /\ UNCHANGED <<jsEventQueue, enqueued>>
        /\ UNCHANGED farFromBridge

\* ------------------------------------------------ createWasmCanvas (hook)
requiredCanvasId == <<"monster-view-canvas">>

\* a revert that writes back the id the canvas carries
internalCanvasIdKept(i) == canvasId[i]

internalCanvasId(i) == <<"canvas-", uniqueId[i]>>

JsPaths == {"", "/pkg/game.js"}
WasmPaths == {"", "/pkg/game_bg.wasm"}

\* the message of the exception the foreign runtime throws to unwind, and of
\* a real failure
ControlFlowException ==
    <<"Using exceptions for control flow", ", don't mind me. This isn't actually an error!">>
InitError == <<"unreachable executed">>
ThrownMessages == {ControlFlowException, InitError}

\* String.prototype.includes on a message held as its parts
Includes(message, part) == \E k \in 1..Len(message) : message[k] = part

\* the synchronous code of a Solid update (mount, effects, cleanup) runs to
\* its end before any queued continuation; a script or timer task starts
\* only when no continuation is queued
HostTaskMayRun == microtasks = <<>> \/ inBatch
NewTaskMayRun == microtasks = <<>>

\* a resolve / reject that settles nothing
SettledPromiseIgnored(p, outcome) == promise

\* resolve / reject through a registry entry: a settled promise ignores it,
\* a pending one settles and queues the continuation of its initialize()
SettledPromise(p, outcome) ==
    IF p # NoInst /\ promise[p] = <<"pending">>
    THEN [promise EXCEPT ![p] = outcome] ELSE promise
QueuedAfterSettle(p) ==
    IF p # NoInst /\ promise[p] = <<"pending">>
    THEN Append(microtasks, p) ELSE microtasks
Rejected(message) == <<"rejected">> \o message
Fulfilled(value) == <<"fulfilled", value>>

\* an element removal that was forgotten
WithoutNone(tags, id) == tags

\* document.getElementById('script-' + id)?.remove(): the first such element
RECURSIVE WithoutFirst(_, _)
WithoutFirst(tags, id) ==
    IF tags = <<>> THEN <<>>
    ELSE IF uniqueId[Head(tags)] = id THEN Tail(tags)
    ELSE <<Head(tags)>> \o WithoutFirst(Tail(tags), id)

\* script.remove()
RECURSIVE WithoutTag(_, _)
WithoutTag(tags, i) ==
    IF tags = <<>> THEN <<>>
    ELSE IF Head(tags) = i THEN Tail(tags)
    ELSE <<Head(tags)>> \o WithoutTag(Tail(tags), i)

\* the identity-checked release of the global pointers: they are cleared when
\* the current poller is the function `poller` (undefined when no entry)
ClearedIfPoller(poller) ==
    IF currentWasmEventPoller = poller
    THEN [poller |-> NoInst, receiver |-> NoInst]
    ELSE [poller |-> currentWasmEventPoller, receiver |-> currentWebEventReceiver]

\* an ownership claim that leaves a pointer another instance has set
ClaimedUnlessSet(i) ==
    IF currentWasmEventPoller # NoInst
    THEN [poller |-> currentWasmEventPoller, receiver |-> currentWebEventReceiver]
    ELSE [poller |-> i, receiver |-> i]

\* the ownership claim of initialize(): both pointers are set to the
\* functions just registered for the instance
Claimed(i) == [poller |-> i, receiver |-> i]

\* a registration that was left out
RegisteredNowhere(funcs, id, i) == funcs

\* window._wasmBridgeFuncs[uniqueId] = { poll, receive } of the instance's bridge
Registered(funcs, id, i) == [funcs EXCEPT ![id] = i]

\* a validation that looks at the loader path only
PathsMissingJsOnly(js, wasm) == js = ""

\* the path validation of initialize()
PathsMissing(js, wasm) == js = "" \/ wasm = ""

\* createWasmCanvas(options) and the canvas ref callback
createWasmCanvas(i, id) ==
    /\ HostTaskMayRun
    /\ hook[i] = "none"
    /\ \A j \in Inst : j < i => hook[j] # "none"
    /\ hook' = [hook EXCEPT ![i] = "live"]
    /\ uniqueId' = [uniqueId EXCEPT ![i] = id]
    /\ canvasId' = [canvasId EXCEPT ![i] = <<"canvas-", id>>]
    /\ canvasElement' = [canvasElement EXCEPT ![i] = TRUE]
    /\ inBatch' = (microtasks # <<>>)
    /\ UNCHANGED <<paths, error, isReady, bridge, wasmModule, visibilityUnsubscribers,
                   pc, promise, script, microtasks, bridgeInterfaceMemo>>
    /\ UNCHANGED <<jsEventQueue, ownBridgeVars, farFromHook, windowVars, histVars>>

\* the function of bridgeInterfaceMemo over the signals it reads: an
\* interface object, or null
MemoValue(b, readyStatus, errorStatus) == b /\ readyStatus /\ errorStatus = <<>>

\* the memo of instance i after a step that wrote its signals. It reruns
\* while the scope that created it lives; when that scope is disposed Solid
\* disposes the computations the scope owns before it runs the onCleanup
\* callbacks, so the memo no longer reruns and keeps its last value
Recomputed(i) ==
    [bridgeInterfaceMemo EXCEPT ![i] =
        IF hook'[i] = "live" THEN MemoValue(bridge'[i], isReady'[i], error'[i]) ELSE @]

\* an init effect that forgets the bridge it has already created
needsInitWithoutBridge(i) ==
    canvasElement[i] /\ ~isReady[i] /\ error[i] = <<>>

\* the init effect: needsInit, new GameBridge, initialize(canvas, newBridge)
\* up to its return or its await
needsInit(i) ==
    canvasElement[i] /\ ~isReady[i] /\ error[i] = <<>> /\ ~bridge[i]

initialize(i, js, wasm) ==
    LET id == uniqueId[i]
        old == wasmInitPromises[id]
        potentiallyExistingPoller == wasmBridgeFuncs[id]
    IN
    /\ HostTaskMayRun
    /\ hook[i] = "live"
    /\ needsInit(i)
    /\ bridge' = [bridge EXCEPT ![i] = TRUE]
    /\ jsEventQueue' = [jsEventQueue EXCEPT ![i] = <<>>]
    /\ wasmEventHandlers' = [wasmEventHandlers EXCEPT ![i] = <<>>]
    /\ UNCHANGED <<bridgeDestroyed, atDestroy, subscriptions>>
    /\ paths' = [paths EXCEPT ![i] = [js |-> js, wasm |-> wasm]]
    /\ IF PathsMissing(js, wasm)
       THEN /\ error' = [error EXCEPT ![i] = <<"WASM JS or WASM file path is missing.">>]
            /\ pc' = [pc EXCEPT ![i] = "returned"]
            /\ inBatch' = (microtasks # <<>>)
            /\ UNCHANGED <<canvasId, promise, script, microtasks, windowVars, initOrder>>
       ELSE \* force cleanup, rename, register, claim, loadWasmViaScript
            /\ promise' = [SettledPromise(old, Rejected(<<"New initialization started">>))
                             EXCEPT ![i] = <<"pending">>]
            /\ microtasks' = QueuedAfterSettle(old)
            /\ inBatch' = (microtasks' # <<>>)
            /\ canvasId' = [canvasId EXCEPT ![i] = requiredCanvasId]
            /\ wasmBridgeFuncs' = Registered(wasmBridgeFuncs, id, i)
            /\ currentWasmEventPoller' = Claimed(i).poller
            /\ currentWebEventReceiver' = Claimed(i).receiver
            /\ wasmInitPromises' = [wasmInitPromises EXCEPT ![id] = i]
            /\ script' = [script EXCEPT ![i] = "loading"]
            /\ scriptTags' = Append(WithoutFirst(scriptTags, id), i)
            /\ pc' = [pc EXCEPT ![i] = "await"]
            /\ initOrder' = Append(initOrder, i)
            /\ UNCHANGED error
    /\ UNCHANGED <<hook, uniqueId, isReady, canvasElement, wasmModule,
                   visibilityUnsubscribers, initResult, disposedPending>>
    /\ UNCHANGED farFromHook
    /\ bridgeInterfaceMemo' = Recomputed(i)

\* the continuation of initialize() after the await, promise fulfilled
initializeResume(p) ==
    /\ microtasks # <<>> /\ Head(microtasks) = p
    /\ promise[p][1] = "fulfilled"
    /\ microtasks' = Tail(microtasks)
    /\ inBatch' = FALSE
    /\ wasmModule' = [wasmModule EXCEPT ![p] = promise[p][2]]
    /\ canvasId' = [canvasId EXCEPT ![p] = internalCanvasId(p)]
    /\ error' = [error EXCEPT ![p] = <<>>]
    /\ isReady' = [isReady EXCEPT ![p] = TRUE]
    /\ visibilityUnsubscribers' = [visibilityUnsubscribers EXCEPT ![p] = 2]
    /\ pc' = [pc EXCEPT ![p] = "done"]
    /\ UNCHANGED <<hook, uniqueId, paths, bridge, canvasElement, promise, script>>
    /\ UNCHANGED <<jsEventQueue, ownBridgeVars, farFromHook, windowVars, histVars>>
    /\ bridgeInterfaceMemo' = Recomputed(p)

\* the continuation of initialize() after the await, promise rejected: catch
initializeCatch(p) ==
    LET id == uniqueId[p]
        pollerForThisInstance == wasmBridgeFuncs[id]
        cleared == ClearedIfPoller(pollerForThisInstance)
    IN
    /\ microtasks # <<>> /\ Head(microtasks) = p
    /\ promise[p][1] = "rejected"
    /\ microtasks' = Tail(microtasks)
    /\ inBatch' = FALSE
    /\ error' = [error EXCEPT ![p] = <<"Initialization failed: ">> \o Tail(promise[p])]
    /\ isReady' = [isReady EXCEPT ![p] = FALSE]
    /\ wasmModule' = [wasmModule EXCEPT ![p] = "null"]
    /\ currentWasmEventPoller' = cleared.poller
    /\ currentWebEventReceiver' = cleared.receiver
    /\ wasmInitPromises' = [wasmInitPromises EXCEPT ![id] = NoInst]
    /\ wasmBridgeFuncs' = [wasmBridgeFuncs EXCEPT ![id] = NoInst]
    /\ canvasId' = [canvasId EXCEPT ![p] =
                      IF @ = requiredCanvasId THEN internalCanvasId(p) ELSE @]
    /\ pc' = [pc EXCEPT ![p] = "done"]
    /\ UNCHANGED <<hook, uniqueId, paths, bridge, canvasElement,
                   visibilityUnsubscribers, promise, script, scriptTags>>
    /\ UNCHANGED <<jsEventQueue, ownBridgeVars, farFromHook, histVars>>
    /\ bridgeInterfaceMemo' = Recomputed(p)

\* onCleanup of the hook
onCleanup(i) ==
    LET id == uniqueId[i]
        owner == wasmInitPromises[id]
        pollerForThisInstance == wasmBridgeFuncs[id]
        cleared == ClearedIfPoller(pollerForThisInstance)
    IN
    /\ HostTaskMayRun
    /\ hook[i] = "live"
    /\ hook' = [hook EXCEPT ![i] = "disposed"]
    /\ visibilityUnsubscribers' = [visibilityUnsubscribers EXCEPT ![i] = 0]
    /\ wasmModule' = [wasmModule EXCEPT ![i] = "null"]
    /\ jsEventQueue' = [jsEventQueue EXCEPT ![i] = IF bridge[i] THEN <<>> ELSE @]
    /\ wasmEventHandlers' = [wasmEventHandlers EXCEPT ![i] = IF bridge[i] THEN <<>> ELSE @]
    /\ bridgeDestroyed' = [bridgeDestroyed EXCEPT ![i] = bridge[i] \/ @]
    /\ atDestroy' = [atDestroy EXCEPT ![i] =
                        IF bridge[i] THEN [enqueued |-> Len(hookEnqueued[i]),
                                           polled |-> Len(hookPolled[i])]
                        ELSE @]
    /\ bridge' = [bridge EXCEPT ![i] = FALSE]
    /\ scriptTags' = WithoutFirst(scriptTags, id)
    /\ promise' = SettledPromise(owner, Rejected(<<"cleaned up before init settled.">>))
    /\ microtasks' = QueuedAfterSettle(owner)
    /\ inBatch' = (microtasks' # <<>>)
    /\ wasmInitPromises' = [wasmInitPromises EXCEPT ![id] = NoInst]
    /\ wasmBridgeFuncs' = [wasmBridgeFuncs EXCEPT ![id] = NoInst]
    /\ currentWasmEventPoller' = cleared.poller
    /\ currentWebEventReceiver' = cleared.receiver
    /\ canvasId' = [canvasId EXCEPT ![i] =
                      IF canvasElement[i] /\ @ = requiredCanvasId
                      THEN internalCanvasId(i) ELSE @]
    /\ canvasElement' = [canvasElement EXCEPT ![i] = FALSE]
    /\ isReady' = [isReady EXCEPT ![i] = FALSE]
    /\ error' = [error EXCEPT ![i] = <<>>]
    /\ UNCHANGED <<uniqueId, paths, pc, script, subscriptions>>
    /\ disposedPending' = [disposedPending EXCEPT ![i] = (promise[i] = <<"pending">>)]
    /\ UNCHANGED <<farFromHook, initOrder, initResult>>
    /\ bridgeInterfaceMemo' = Recomputed(i)

\* ------------------------------------- the script loadWasmViaScript injects
\* script.onerror: the module or one of its imports failed to load
scriptOnError(i) ==
    LET id == uniqueId[i]
        owner == wasmInitPromises[id]
    IN
    /\ NewTaskMayRun
    /\ script[i] = "loading"
    /\ script' = [script EXCEPT ![i] = "finished"]
    /\ promise' = SettledPromise(owner, Rejected(<<"Script load error for ", paths[i].js>>))
    /\ microtasks' = QueuedAfterSettle(owner)
    /\ inBatch' = FALSE
    /\ wasmInitPromises' = [wasmInitPromises EXCEPT ![id] = NoInst]
    /\ wasmBridgeFuncs' = [wasmBridgeFuncs EXCEPT ![id] = NoInst]
    /\ scriptTags' = WithoutTag(scriptTags, i)
    /\ UNCHANGED <<currentWasmEventPoller, currentWebEventReceiver>>
    /\ UNCHANGED <<hook, uniqueId, paths, error, isReady, bridge, canvasElement, canvasId,
                   wasmModule, visibilityUnsubscribers, pc, bridgeInterfaceMemo>>
    /\ UNCHANGED <<jsEventQueue, ownBridgeVars, farFromHook, histVars>>

\* the async IIFE up to its await: the registry check, then init() is called
scriptRun(i) ==
    LET id == uniqueId[i]
        owner == wasmInitPromises[id]
        incomplete == wasmInitPromises[id] = NoInst \/ wasmBridgeFuncs[id] = NoInst
    IN
    /\ NewTaskMayRun
    /\ script[i] = "loading"
    /\ inBatch' = FALSE
    /\ IF incomplete
       THEN /\ script' = [script EXCEPT ![i] = "finished"]
            /\ promise' = SettledPromise(owner, Rejected(<<"Registry setup incomplete!">>))
            /\ microtasks' = QueuedAfterSettle(owner)
       ELSE /\ script' = [script EXCEPT ![i] = "init"]
            /\ UNCHANGED <<promise, microtasks>>
    /\ UNCHANGED <<hook, uniqueId, paths, error, isReady, bridge, canvasElement, canvasId,
                   wasmModule, visibilityUnsubscribers, pc, bridgeInterfaceMemo>>
    /\ UNCHANGED <<jsEventQueue, ownBridgeVars, farFromHook, windowVars, histVars>>

\* promiseRegistry[instanceId].resolve / .reject throws a TypeError when the
\* entry is gone; thrown in the try it lands in the catch, whose reject
\* throws again: the IIFE ends with nothing settled
\* init() resolved
scriptInitResolved(i) ==
    LET owner == wasmInitPromises[uniqueId[i]] IN
    /\ NewTaskMayRun
    /\ script[i] = "init"
    /\ script' = [script EXCEPT ![i] = "finished"]
    /\ initResult' = [initResult EXCEPT ![i] = "resolved"]
    /\ promise' = SettledPromise(owner, Fulfilled("instance"))
    /\ microtasks' = QueuedAfterSettle(owner)
    /\ inBatch' = FALSE
    /\ UNCHANGED <<hook, uniqueId, paths, error, isReady, bridge, canvasElement, canvasId,
                   wasmModule, visibilityUnsubscribers, pc, bridgeInterfaceMemo>>
    /\ UNCHANGED <<jsEventQueue, ownBridgeVars, farFromHook, windowVars, initOrder, disposedPending>>

\* the benign signature not recognised
isControlFlowExceptionNever(errorMessage) == FALSE

\* init() threw: the catch of the IIFE
isControlFlowException(errorMessage) ==
    Includes(errorMessage, "Using exceptions for control flow")

scriptInitThrew(i, errorMessage) ==
    LET owner == wasmInitPromises[uniqueId[i]] IN
    /\ NewTaskMayRun
    /\ script[i] = "init"
    /\ script' = [script EXCEPT ![i] = "finished"]
    /\ initResult' = [initResult EXCEPT ![i] =
                        IF errorMessage = ControlFlowException THEN "benign" ELSE "error"]
    /\ promise' = IF isControlFlowException(errorMessage)
                  THEN SettledPromise(owner, Fulfilled("null"))
                  ELSE SettledPromise(owner, Rejected(errorMessage))
    /\ microtasks' = QueuedAfterSettle(owner)
    /\ inBatch' = FALSE
    /\ UNCHANGED <<hook, uniqueId, paths, error, isReady, bridge, canvasElement, canvasId,
                   wasmModule, visibilityUnsubscribers, pc, bridgeInterfaceMemo>>
    /\ UNCHANGED <<jsEventQueue, ownBridgeVars, farFromHook, windowVars, initOrder, disposedPending>>

\* ------------------------- the poll entry points of the foreign module
\* init() was called with the import shim and has not failed: the foreign
\* module of the instance's script may call its imports and the globals
ForeignModuleRuns(i) == script[i] = "init" \/ initResult[i] \in {"resolved", "benign"}

\* the events a caller enqueues through a bridge interface
HookEvents == <<Events[1], Events[5]>>

RECURSIVE TotalLen(_, _)
TotalLen(f, S) ==
    IF S = {} THEN 0
    ELSE LET i == CHOOSE x \in S : TRUE IN Len(f[i]) + TotalLen(f, S \ {i})

\* bridgeInterfaceMemo was non-null for the instance at some time: a caller
\* may hold the interface, also after teardown
InterfaceHandedOut(i) == pc[i] = "done" /\ promise[i][1] = "fulfilled"

\* queueEventForWasm of the interface: b.queueEventForWasm.bind(b)
interfaceQueueEventForWasm(i, event) ==
    /\ HostTaskMayRun
    /\ InterfaceHandedOut(i)
    /\ TotalLen(hookEnqueued, Inst) < MaxHookEnq
    /\ jsEventQueue' = [jsEventQueue EXCEPT ![i] = Append(@, ProcessedEvent(event))]
    /\ hookEnqueued' = [hookEnqueued EXCEPT ![i] = Append(@, event)]
    /\ inBatch' = (microtasks # <<>>)
    /\ UNCHANGED <<iframeEventQueue, enqueued, polled, lastPoll, lastEntryCall, hookPolled,
                   microtasks>>
    /\ UNCHANGED <<hookVars, windowVars, programVars, histVars, childVars, ownBridgeVars, inboundVars,
                   frameVars>>

\* poll: bridgeInstance.pollJsEvent.bind(bridgeInstance) of instance `target`,
\* called through the entry point `entry`
PolledThrough(entry, target) ==
    LET r == Shift(jsEventQueue[target]) IN
    /\ jsEventQueue' = [jsEventQueue EXCEPT ![target] = r.rest]
    /\ hookPolled' = [hookPolled EXCEPT ![target] =
                         IF r.defined THEN Append(@, r.head) ELSE @]
    /\ lastEntryCall' = [entry |-> entry, target |-> target,
                          outcome |-> IF r.defined THEN "event" ELSE "Empty"]

\* window.wasm_event(), the global delegate
wasmEventGlobal ==
    LET poller == currentWasmEventPoller IN
    /\ NewTaskMayRun
    /\ \E i \in Inst : ForeignModuleRuns(i)
    /\ IF poller # NoInst
       THEN PolledThrough("global", poller)
       ELSE /\ lastEntryCall' = [entry |-> "global", target |-> NoInst, outcome |-> "Empty"]
            /\ UNCHANGED <<jsEventQueue, hookPolled>>
    /\ inBatch' = FALSE
    /\ UNCHANGED <<iframeEventQueue, enqueued, polled, lastPoll, hookEnqueued, microtasks>>
    /\ UNCHANGED <<hookVars, windowVars, programVars, histVars, childVars, ownBridgeVars, inboundVars,
                   frameVars>>

\* wasm_event of the import shim of instance i's script:
\* () => bridgeFuncs[instanceId].poll(); with no entry under the identifier
\* the property read of undefined throws a TypeError
wasmEventShim(i) ==
    LET funcs == wasmBridgeFuncs[uniqueId[i]] IN
    /\ NewTaskMayRun
    /\ ForeignModuleRuns(i)
    /\ IF funcs # NoInst
       THEN PolledThrough("shim", funcs)
       ELSE /\ lastEntryCall' = [entry |-> "shim", target |-> NoInst, outcome |-> "threw"]
            /\ UNCHANGED <<jsEventQueue, hookPolled>>
    /\ inBatch' = FALSE
    /\ UNCHANGED <<iframeEventQueue, enqueued, polled, lastPoll, hookEnqueued, microtasks>>
    /\ UNCHANGED <<hookVars, windowVars, programVars, histVars, childVars, ownBridgeVars, inboundVars,
                   frameVars>>

\* ------------------------------------- child document: initializeWasm
ChildInstanceId == "X"
\* an envelope to the host: { type, payload: { instanceId, error, event } };
\* an inbound event is held as the serial number the foreign module gave it,
\* NoEvent when the payload has none
NoEvent == 0
Message(type, payload) ==
    [type |-> type, instanceId |-> ChildInstanceId, error |-> payload, event |-> NoEvent]

\* window.parent.postMessage({ type, payload: { instanceId, ...payload } })
notifyParent(type, payload) == Append(posted, Message(type, payload))

ImportError == <<"Failed to fetch dynamically imported module">>
NoInitFunction == <<"WASM init function not found in ", "/pkg/game.js">>

\* the check in the catch of initializeWasm
childIsControlFlowException(errorMessage) ==
    Includes(errorMessage, "Using exceptions for control flow")

\* the catch block of initializeWasm for a thrown message
childCatch(errorMessage) ==
    IF childIsControlFlowException(errorMessage)
    THEN notifyParent("IFRAME_READY", <<>>)
    ELSE notifyParent("WASM_ERROR", errorMessage)

\* the parameter check at the top of initializeWasm
childParamsMissing == childJsPath = "" \/ childWasmPath = ""

\* preload-assets.js finished both fetches
preloadAssets ==
    /\ ~modelPreloaded
    /\ modelPreloaded' = TRUE
    /\ UNCHANGED <<childJsPath, childWasmPath, childPc, childImported, childInitResult, posted>>
    /\ UNCHANGED farFromChild

\* initializeWasm() from its call to its first await (or its return)
initializeWasm ==
    /\ childPc = "start"
    /\ IF childParamsMissing
       THEN /\ posted' = notifyParent("WASM_ERROR", <<"Missing jsPath or wasmPath URL parameters.">>)
            /\ childPc' = "done"
            /\ UNCHANGED childImported
       ELSE IF ~modelPreloaded
       THEN /\ childPc' = "preload"
            /\ UNCHANGED <<posted, childImported>>
       ELSE /\ childPc' = "import"
            /\ childImported' = TRUE
            /\ UNCHANGED posted
    /\ UNCHANGED <<childJsPath, childWasmPath, modelPreloaded, childInitResult>>
    /\ UNCHANGED farFromChild

\* a wait that only the flag ends
preloadWaitWithoutTimeout(byTimeout) ==
    /\ childPc = "preload"
    /\ modelPreloaded
    /\ childPc' = "import"
    /\ childImported' = TRUE
    /\ UNCHANGED <<childJsPath, childWasmPath, modelPreloaded, childInitResult, posted>>
    /\ UNCHANGED farFromChild

\* the 100 ms interval saw the flag, or the 5 s timeout fired: the wait ends
\* and import(jsPath) starts
preloadWaitEnds(byTimeout) ==
    /\ childPc = "preload"
    /\ byTimeout \/ modelPreloaded
    /\ childPc' = "import"
    /\ childImported' = TRUE
    /\ UNCHANGED <<childJsPath, childWasmPath, modelPreloaded, childInitResult, posted>>
    /\ UNCHANGED farFromChild

\* import(jsPath) settled: it failed, or the module has (or lacks) a default
\* export that is a function; with one, init(wasmPath) is called
importSettled(outcome) ==
    /\ childPc = "import"
    /\ CASE outcome = "failed" ->
              /\ posted' = childCatch(ImportError)
              /\ childPc' = "done"
         [] outcome = "no init" ->
              /\ posted' = childCatch(NoInitFunction)
              /\ childPc' = "done"
         [] OTHER ->
              /\ childPc' = "init"
              /\ UNCHANGED posted
    /\ UNCHANGED <<childJsPath, childWasmPath, modelPreloaded, childImported, childInitResult>>
    /\ UNCHANGED farFromChild

\* init(wasmPath) resolved
childInitResolved ==
    /\ childPc = "init"
    /\ childPc' = "done"
    /\ childInitResult' = "resolved"
    /\ posted' = notifyParent("IFRAME_READY", <<>>)
    /\ UNCHANGED <<childJsPath, childWasmPath, modelPreloaded, childImported>>
    /\ UNCHANGED farFromChild

\* init(wasmPath) threw
childInitThrew(errorMessage) ==
    /\ childPc = "init"
    /\ childPc' = "done"
    /\ childInitResult' = IF errorMessage = ControlFlowException THEN "benign" ELSE "error"
    /\ posted' = childCatch(errorMessage)
    /\ UNCHANGED <<childJsPath, childWasmPath, modelPreloaded, childImported>>
    /\ UNCHANGED farFromChild

\* the foreign module of the child document may call wasm_event / web_event
ChildModuleRuns == childPc = "init" \/ childInitResult \in {"resolved", "benign"}

\* window.parent.postMessage(message, '*') with the messages reordered: the
\* new one overtakes the last one not yet dispatched
PostedAhead(log, message) ==
    IF Len(log) > hostRead
    THEN SubSeq(log, 1, Len(log) - 1) \o <<message, log[Len(log)]>>
    ELSE Append(log, message)

\* window.parent.postMessage(message, '*'): message events are dispatched
\* in the order they were posted
PostedToParent(log, message) == Append(log, message)

\* iframeReceiveWasmEvent(event): the foreign module hands over its next event
iframeReceiveWasmEvent ==
    /\ ChildModuleRuns
    /\ emitted < MaxEmit
    /\ emitted' = emitted + 1
    /\ posted' = PostedToParent(posted, [Message("WASM_EVENT", <<>>) EXCEPT !.event = emitted + 1])
    /\ UNCHANGED <<childJsPath, childWasmPath, modelPreloaded, childPc, childImported,
                   childInitResult, received, lastReceive>>
    /\ UNCHANGED <<bridgeVars, hookVars, windowVars, programVars, schedVars, histVars, ownBridgeVars,
                   pollVars, frameVars>>

\* an array push at the wrong end
Unshifted(queue, event) == <<event>> \o queue

\* iframeEventQueue.push(processedEvent)
Pushed(queue, event) == Append(queue, event)

\* the child's 'message' listener on the next message posted to its window
\* (the listener looks at message.type and message.payload only)
childOnMessage ==
    LET message == Head(toChild) IN
    /\ toChild # <<>>
    /\ toChild' = Tail(toChild)
    /\ IF message.type = "QUEUE_WASM_EVENT"
       THEN /\ iframeEventQueue' = Pushed(iframeEventQueue, ProcessedEvent(message.payload))
            /\ enqueued' = [enqueued EXCEPT !["iframe"] = Append(@, message.payload)]
       ELSE UNCHANGED <<iframeEventQueue, enqueued>>
    /\ UNCHANGED <<jsEventQueue, polled, lastPoll>>
    /\ UNCHANGED <<wrapper, isIframeReady, wrapperError, wrapperHandlers, hostRead,
                   strangerPosts, called, sent>>
    /\ UNCHANGED <<hookVars, windowVars, programVars, schedVars, histVars, childVars, ownBridgeVars,
                   inboundVars, pollVars>>

\* ------------------------------------------------- WasmIframeWrapper
WrapperInstanceId == ChildInstanceId

\* onMount: the listener is registered; the iframe was rendered with the
\* three parameters in its src
wrapperMount ==
    /\ wrapper = "none"
    /\ wrapper' = "mounted"
    /\ UNCHANGED <<isIframeReady, wrapperError, wrapperHandlers, toChild, hostRead,
                   strangerPosts, called, sent>>
    /\ UNCHANGED <<bridgeVars, hookVars, windowVars, programVars, schedVars, histVars, childVars,
                   ownBridgeVars, inboundVars, pollVars>>

\* onCleanup: the listener is removed and the handler list emptied; the
\* iframe leaves the document with the component, and with it the child
\* document and the messages it had not yet received
wrapperCleanup ==
    /\ wrapper = "mounted"
    /\ wrapper' = "cleaned"
    /\ wrapperHandlers' = <<>>
    /\ toChild' = <<>>
    /\ UNCHANGED <<isIframeReady, wrapperError, hostRead, strangerPosts, called, sent>>
    /\ UNCHANGED <<bridgeVars, hookVars, windowVars, programVars, schedVars, histVars, childVars,
                   ownBridgeVars, inboundVars, pollVars>>

\* an identifier test that lets every envelope through
ForAnyInstance(message) == TRUE

\* message.payload?.instanceId === instanceId
ForThisInstance(message) == message.instanceId = WrapperInstanceId

\* ... || !message.payload?.instanceId : the identifier is falsy (absent,
\* or the empty string, both held as NoId)
Broadcast(message) == message.instanceId = NoId

\* the envelopes other senders post to the host window: another instance's
\* child, or a sender that gives no identifier
StrangerSerial == MaxEmit + 1
StrangerEnvelopes ==
    { [type |-> t, instanceId |-> id, error |-> e, event |-> n] :
        t \in {"IFRAME_READY", "WASM_ERROR", "WASM_EVENT"}, id \in {NoId, "Y"},
        e \in {<<>>}, n \in {StrangerSerial} }

\* the wrapper's messageListener on one message event
messageListener(message) ==
    CASE message.type = "IFRAME_READY" /\ ForThisInstance(message) ->
            /\ wrapperError' = <<>>
            /\ isIframeReady' = TRUE
            /\ called' = Append(called, "onReady")
            /\ UNCHANGED <<received, lastReceive>>
      [] message.type = "WASM_ERROR" /\ ForThisInstance(message) ->
            /\ wrapperError' = IF message.error = <<>> THEN <<"Unknown WASM error">>
                                ELSE message.error
            /\ isIframeReady' = FALSE
            /\ called' = Append(called, "onError")
            /\ UNCHANGED <<received, lastReceive>>
      [] /\ message.type = "WASM_EVENT"
         /\ ForThisInstance(message) \/ Broadcast(message)
         /\ message.event # NoEvent ->
            LET r == ForEachCaught(wrapperHandlers) IN
            /\ received' = ReceivedAfter(r.invoked, message.event)
            /\ lastReceive' = [by |-> "wrapper", threw |-> r.threw,
                                subscribed |-> Range(wrapperHandlers),
                                invoked |-> Range(r.invoked)]
            /\ UNCHANGED <<isIframeReady, wrapperError, called>>
      [] OTHER ->
            UNCHANGED <<isIframeReady, wrapperError, called, received, lastReceive>>

\* the next message the child posted is dispatched in the host window
NextPosted == posted[hostRead + 1]

hostMessageFromChild ==
    /\ hostRead < Len(posted)
    /\ hostRead' = hostRead + 1
    /\ IF wrapper = "mounted" THEN messageListener(NextPosted)
       ELSE UNCHANGED <<isIframeReady, wrapperError, called, received, lastReceive>>
    /\ UNCHANGED <<wrapper, wrapperHandlers, toChild, strangerPosts, sent, emitted>>
    /\ UNCHANGED <<bridgeVars, hookVars, windowVars, programVars, schedVars, histVars, childVars,
                   ownBridgeVars, pollVars>>

\* a message of another sender is dispatched in the host window
hostMessageFromStranger(message) ==
    /\ strangerPosts < MaxStranger
    /\ strangerPosts' = strangerPosts + 1
    /\ IF wrapper = "mounted" THEN messageListener(message)
       ELSE UNCHANGED <<isIframeReady, wrapperError, called, received, lastReceive>>
    /\ UNCHANGED <<wrapper, wrapperHandlers, toChild, hostRead, sent, emitted>>
    /\ UNCHANGED <<bridgeVars, hookVars, windowVars, programVars, schedVars, histVars, childVars,
                   ownBridgeVars, pollVars>>

\* createBridgeInterface() was called and its result given to onReady
WrapperBridgeHandedOut == \E k \in 1..Len(called) : called[k] = "onReady"

\* a send that posts the message twice
SentTwice(channel, message) == channel \o <<message, message>>

\* iframeRef.contentWindow.postMessage(message, '*')
SentToIframe(channel, message) == Append(channel, message)

\* the envelope createBridgeInterface().queueEventForWasm builds
QueueWasmEvent(event) == [type |-> "QUEUE_WASM_EVENT", instanceId |-> NoId, payload |-> event]

\* queueEventForWasm of the wrapper's bridge: sendMessageToIframe, which
\* posts when the iframe has a contentWindow and only warns otherwise
wrapperQueueEventForWasm(event) ==
    /\ WrapperBridgeHandedOut
    /\ Len(sent) < MaxEnq
    /\ sent' = Append(sent, event)
    /\ toChild' = IF wrapper = "mounted" THEN SentToIframe(toChild, QueueWasmEvent(event))
                  ELSE toChild
    /\ UNCHANGED <<wrapper, isIframeReady, wrapperError, wrapperHandlers, hostRead,
                   strangerPosts, called>>
    /\ UNCHANGED <<bridgeVars, hookVars, windowVars, programVars, schedVars, histVars, childVars,
                   ownBridgeVars, inboundVars, pollVars>>

\* onWasmEvent of the wrapper's bridge, and the function it returns; the
\* caller subscribes a handler again only after it has unsubscribed it
wrapperOnWasmEvent(handler) ==
    /\ WrapperBridgeHandedOut
    /\ handler \notin Range(wrapperHandlers)
    /\ wrapperHandlers' = Append(wrapperHandlers, handler)
    /\ UNCHANGED <<wrapper, isIframeReady, wrapperError, toChild, hostRead, strangerPosts,
                   called, sent>>
    /\ UNCHANGED <<bridgeVars, hookVars, windowVars, programVars, schedVars, histVars, childVars,
                   ownBridgeVars, inboundVars, pollVars>>

wrapperUnsubscribe(handler) ==
    /\ handler \in Range(wrapperHandlers)
    /\ wrapperHandlers' = Filtered(wrapperHandlers, handler)
    /\ UNCHANGED <<wrapper, isIframeReady, wrapperError, toChild, hostRead, strangerPosts,
                   called, sent>>
    /\ UNCHANGED <<bridgeVars, hookVars, windowVars, programVars, schedVars, histVars, childVars,
                   ownBridgeVars, inboundVars, pollVars>>

\* ------------------------------------------ ProgramProvider (z-order)
\* the ids crypto.randomUUID() gives out, one per registerProgram call
ProgramIds == 1..MaxPrograms
NoProgram == 0

\* programs.find(p => p.id === id) as an index, 0 when there is none
IndexOf(ps, id) ==
    IF \E k \in 1..Len(ps) : ps[k].id = id
    THEN CHOOSE k \in 1..Len(ps) : ps[k].id = id
    ELSE 0

\* the position of ps[k] in filter(p => !p.isMinimized).sort((a, b) =>
\* a.zIndex - b.zIndex), counted from 1; the sort is stable
SortedPosition(ps, k) ==
    1 + Cardinality({j \in 1..Len(ps) :
                        /\ ~ps[j].isMinimized
                        /\ \/ ps[j].zIndex < ps[k].zIndex
                           \/ ps[j].zIndex = ps[k].zIndex /\ j < k})

\* a renumbering that leaves the minimized programs as they are
normalizeShownOnly(ps) ==
    [k \in 1..Len(ps) |->
        IF ps[k].isMinimized THEN ps[k]
        ELSE [ps[k] EXCEPT !.zIndex = SortedPosition(ps, k)]]

\* normalizeZIndices(currentPrograms): the store after the call
normalizeZIndices(ps) ==
    [k \in 1..Len(ps) |->
        [ps[k] EXCEPT !.zIndex = IF ps[k].isMinimized THEN 0 ELSE SortedPosition(ps, k)]]

\* what normalizeZIndices returns: currentZ - 1
NormalizedTop(ps) == Cardinality({k \in 1..Len(ps) : ~ps[k].isMinimized})

\* the highest zIndex among the other programs that are not minimized
RECURSIVE MaxZ(_, _)
MaxZ(ps, id) ==
    IF ps = <<>> THEN 0
    ELSE LET rest == MaxZ(Tail(ps), id)
             p == Head(ps)
         IN  IF p.id # id /\ ~p.isMinimized /\ p.zIndex > rest THEN p.zIndex ELSE rest

\* programs.splice(index, 1)
Spliced(ps, index) == SubSeq(ps, 1, index - 1) \o SubSeq(ps, index + 1, Len(ps))

registerProgram ==
    LET id == registered + 1
        current == normalizeZIndices(programs)
        newProgram == [id |-> id, zIndex |-> NormalizedTop(programs) + 1,
                       isMinimized |-> FALSE]
        pushed == Append(current, newProgram)
        elevated == [pushed EXCEPT ![Len(pushed)].zIndex = MaxZ(pushed, id) + 1]
    IN  /\ registered < MaxPrograms
        /\ registered' = id
        /\ programs' = normalizeZIndices(elevated)
        /\ lastRaised' = id
        /\ UNCHANGED farFromPrograms

unregisterProgram(id) ==
    LET index == IndexOf(programs, id) IN
    /\ programs' = IF index # 0 THEN normalizeZIndices(Spliced(programs, index))
                   ELSE programs
    /\ UNCHANGED <<registered, lastRaised>>
    /\ UNCHANGED farFromPrograms

minimizeProgram(id) ==
    LET index == IndexOf(programs, id) IN
    /\ programs' = IF index # 0 /\ ~programs[index].isMinimized
                   THEN normalizeZIndices([programs EXCEPT ![index].isMinimized = TRUE])
                   ELSE programs
    /\ UNCHANGED <<registered, lastRaised>>
    /\ UNCHANGED farFromPrograms

restoreProgram(id) ==
    LET index == IndexOf(programs, id)
        shown == [programs EXCEPT ![index].isMinimized = FALSE]
    IN  /\ programs' = IF index # 0
                       THEN normalizeZIndices([shown EXCEPT ![index].zIndex = MaxZ(shown, id) + 1])
                       ELSE programs
        /\ lastRaised' = IF index # 0 THEN id ELSE lastRaised
        /\ UNCHANGED registered
        /\ UNCHANGED farFromPrograms

bringToFront(id) ==
    LET index == IndexOf(programs, id)
        maxZ == MaxZ(programs, id)
    IN  /\ programs' = IF index # 0 /\ ~programs[index].isMinimized
                          /\ programs[index].zIndex <= maxZ
                       THEN normalizeZIndices([programs EXCEPT ![index].zIndex = maxZ + 1])
                       ELSE programs
        /\ lastRaised' = IF index # 0 /\ ~programs[index].isMinimized THEN id ELSE lastRaised
        /\ UNCHANGED registered
        /\ UNCHANGED farFromPrograms

\* --------------------------------------------------------- initial state
NoPaths == [js |-> "", wasm |-> ""]

InitBridge ==
    /\ jsEventQueue = [i \in Inst |-> <<>>]
    /\ iframeEventQueue = <<>>
    /\ enqueued = [q \in Queues |-> <<>>]
    /\ polled = [q \in Queues |-> <<>>]
    /\ lastPoll = [q \in Queues |-> NoPoll]

InitHooks ==
    /\ hook = [i \in Inst |-> "none"]
    /\ uniqueId = [i \in Inst |-> NoId]
    /\ paths = [i \in Inst |-> NoPaths]
    /\ error = [i \in Inst |-> <<>>]
    /\ isReady = [i \in Inst |-> FALSE]
    /\ bridge = [i \in Inst |-> FALSE]
    /\ canvasElement = [i \in Inst |-> FALSE]
    /\ canvasId = [i \in Inst |-> <<>>]
    /\ wasmModule = [i \in Inst |-> "null"]
    /\ visibilityUnsubscribers = [i \in Inst |-> 0]
    /\ pc = [i \in Inst |-> "idle"]
    /\ promise = [i \in Inst |-> <<"none">>]
    /\ script = [i \in Inst |-> "none"]
    /\ bridgeInterfaceMemo = [i \in Inst |-> FALSE]

\* setupGlobalEventDelegates has run when the module was loaded
InitWindow ==
    /\ wasmInitPromises = [id \in Ids |-> NoInst]
    /\ wasmBridgeFuncs = [id \in Ids |-> NoInst]
    /\ currentWasmEventPoller = NoInst
    /\ currentWebEventReceiver = NoInst
    /\ scriptTags = <<>>

InitRest ==
    /\ microtasks = <<>>
    /\ inBatch = FALSE
    /\ initOrder = <<>>
    /\ initResult = [i \in Inst |-> "none"]
    /\ disposedPending = [i \in Inst |-> FALSE]

\* a child document that was given its two paths and has not run yet
InitChild ==
    /\ childJsPath = "/pkg/game.js"
    /\ childWasmPath = "/pkg/game_bg.wasm"
    /\ modelPreloaded = FALSE
    /\ childPc = "start"
    /\ childImported = FALSE
    /\ childInitResult = "none"
    /\ posted = <<>>

NoReceive == [by |-> "none", threw |-> FALSE, subscribed |-> {}, invoked |-> {}]
NoEntryCall == [entry |-> "none", outcome |-> "none", target |-> NoInst]

InitInbound ==
    /\ wasmEventHandlers = [i \in Inst |-> <<>>]
    /\ bridgeDestroyed = [i \in Inst |-> FALSE]
    /\ atDestroy = [i \in Inst |-> [enqueued |-> 0, polled |-> 0]]
    /\ subscriptions = [i \in Inst |-> <<>>]
    /\ received = [h \in Handlers |-> <<>>]
    /\ lastReceive = NoReceive
    /\ emitted = 0

InitPoll ==
    /\ lastEntryCall = NoEntryCall
    /\ hookEnqueued = [i \in Inst |-> <<>>]
    /\ hookPolled = [i \in Inst |-> <<>>]

InitFrame ==
    /\ wrapper = "none"
    /\ isIframeReady = FALSE
    /\ wrapperError = <<>>
    /\ wrapperHandlers = <<>>
    /\ toChild = <<>>
    /\ hostRead = 0
    /\ strangerPosts = 0
    /\ called = <<>>
    /\ sent = <<>>

\* createStore<RunningProgram[]>([])
InitPrograms ==
    /\ programs = <<>>
    /\ registered = 0
    /\ lastRaised = NoProgram

InitCommon ==
    /\ InitBridge /\ InitHooks /\ InitWindow /\ InitRest /\ InitInbound /\ InitPoll /\ InitFrame
    /\ InitPrograms

Init == InitCommon /\ InitChild

\* a child document with any URL parameters, in a session where the assets
\* may already have been preloaded
InitAnyChild ==
    /\ InitCommon
    /\ childJsPath \in JsPaths
    /\ childWasmPath \in WasmPaths
    /\ modelPreloaded \in BOOLEAN
    /\ childPc = "start"
    /\ childImported = FALSE
    /\ childInitResult = "none"
    /\ posted = <<>>

\* ------------------------------------------ the queues on their own
NextBridge ==
    \/ \E k \in 1..Len(Events) : queueEventForWasm(FirstInst, Events[k])
    \/ pollJsEvent(FirstInst)
    \/ \E k \in 1..Len(Events) : onQueueWasmEvent(Events[k])
    \/ iframePollJsEvent

SpecBridge == Init /\ [][NextBridge]_vars

\* ------------------------------------------ one GameBridge, disposed
NextDispose ==
    \/ \E k \in 1..Len(HookEvents) : queueEventForWasm(FirstInst, HookEvents[k])
    \/ pollJsEvent(FirstInst)
    \/ destroy(FirstInst)
    \/ \E h \in Handlers : onWasmEvent(FirstInst, h)
    \/ \E k \in 1..MaxSubscriptions : unsubscribe(FirstInst, k)
    \/ receiveWasmEvent(FirstInst)

SpecDispose == Init /\ [][NextDispose]_vars

\* ------------------------------------------ the lifecycle manager
\* the steps of the instances of S
Lifecycle(S) ==
    \/ \E i \in S, id \in Ids : createWasmCanvas(i, id)
    \/ \E i \in S, js \in JsPaths, wasm \in WasmPaths : initialize(i, js, wasm)
    \/ \E i \in S : initializeResume(i)
    \/ \E i \in S : initializeCatch(i)
    \/ \E i \in S : onCleanup(i)
    \/ \E i \in S : scriptOnError(i)
    \/ \E i \in S : scriptRun(i)
    \/ \E i \in S : scriptInitResolved(i)
    \/ \E i \in S, m \in ThrownMessages : scriptInitThrew(i, m)

Next == Lifecycle(Inst)

Spec == Init /\ [][Next]_vars

\* ------------------- the lifecycle manager with the foreign module polling
\* an instance and one that may remount under its identifier
PollInst == {FirstInst, FirstInst + 1}

NextPoll ==
    \/ Lifecycle(PollInst)
    \/ \E i \in PollInst, k \in 1..Len(HookEvents) :
          interfaceQueueEventForWasm(i, HookEvents[k])
    \/ wasmEventGlobal
    \/ \E i \in PollInst : wasmEventShim(i)

SpecPoll == Init /\ [][NextPoll]_vars

\* ------------- one initialization on each path: one hook, one child document
ImportOutcomes == {"failed", "no init", "ok"}

NextInit ==
    \/ \E id \in Ids : createWasmCanvas(FirstInst, id)
    \/ \E js \in JsPaths, wasm \in WasmPaths : initialize(FirstInst, js, wasm)
    \/ initializeResume(FirstInst)
    \/ initializeCatch(FirstInst)
    \/ onCleanup(FirstInst)
    \/ scriptOnError(FirstInst)
    \/ scriptRun(FirstInst)
    \/ scriptInitResolved(FirstInst)
    \/ \E m \in ThrownMessages : scriptInitThrew(FirstInst, m)
    \/ preloadAssets
    \/ initializeWasm
    \/ \E byTimeout \in BOOLEAN : preloadWaitEnds(byTimeout)
    \/ \E outcome \in ImportOutcomes : importSettled(outcome)
    \/ childInitResolved
    \/ \E m \in ThrownMessages : childInitThrew(m)

SpecInit == InitAnyChild /\ [][NextInit]_vars

\* the child document's script runs, its timers fire, and import(jsPath) and
\* init(wasmPath) settle
SpecInitFair ==
    /\ SpecInit
    /\ WF_vars(initializeWasm)
    /\ WF_vars(preloadWaitEnds(TRUE))
    /\ WF_vars(\E outcome \in ImportOutcomes : importSettled(outcome))
    /\ WF_vars(childInitResolved \/ \E m \in ThrownMessages : childInitThrew(m))

\* ------------------ one wrapper and its child document: the outbound path
\* the child document lives while its iframe is in the host document
ChildAlive == wrapper = "mounted"

ChildInitializes ==
    /\ ChildAlive
    /\ \/ preloadAssets
       \/ initializeWasm
       \/ \E byTimeout \in BOOLEAN : preloadWaitEnds(byTimeout)
       \/ \E outcome \in ImportOutcomes : importSettled(outcome)
       \/ childInitResolved
       \/ \E m \in ThrownMessages : childInitThrew(m)

\* the foreign module polls (window.wasm_event of the child document)
ChildModulePolls == ChildAlive /\ ChildModuleRuns /\ iframePollJsEvent

NextOutbound ==
    \/ wrapperMount
    \/ wrapperCleanup
    \/ ChildInitializes
    \/ hostMessageFromChild
    \/ \E k \in 1..Len(HookEvents) : wrapperQueueEventForWasm(HookEvents[k])
    \/ childOnMessage
    \/ ChildModulePolls

SpecOutbound == Init /\ [][NextOutbound]_vars

\* the channel delivers and the foreign module keeps polling
SpecOutboundFair ==
    SpecOutbound /\ WF_vars(childOnMessage) /\ WF_vars(ChildModulePolls)

\* ------------------- one wrapper and its child document: the inbound path
NextInbound ==
    \/ wrapperMount
    \/ wrapperCleanup
    \/ ChildInitializes
    \/ ChildAlive /\ iframeReceiveWasmEvent
    \/ hostMessageFromChild
    \/ \E m \in StrangerEnvelopes : hostMessageFromStranger(m)
    \/ \E h \in Handlers : wrapperOnWasmEvent(h)
    \/ \E h \in Handlers : wrapperUnsubscribe(h)

SpecInbound == Init /\ [][NextInbound]_vars

\* ------------------------------------------ the window manager
NextPrograms ==
    \/ registerProgram
    \/ \E id \in ProgramIds : unregisterProgram(id)
    \/ \E id \in ProgramIds : minimizeProgram(id)
    \/ \E id \in ProgramIds : restoreProgram(id)
    \/ \E id \in ProgramIds : bringToFront(id)

SpecPrograms == Init /\ [][NextPrograms]_vars

\* ======================================================== the claims
QueueOf(q) == IF q = "GameBridge" THEN jsEventQueue[FirstInst] ELSE iframeEventQueue
ProcessedAll(events) == [k \in 1..Len(events) |-> ProcessedEvent(events[k])]

\* C1: on one GameBridge, and on the child document's local queue, the polls
\* return the enqueued events in enqueue order, each once (what was returned,
\* followed by what is still queued, is what was enqueued), and a poll
\* returns the sentinel 'Empty' exactly when it found the queue exhausted;
\* a poll always returns one of the two, it never throws.
C1_PollIsFifo ==
    \A q \in Queues :
        /\ polled[q] \o QueueOf(q) = ProcessedAll(enqueued[q])
        /\ lastPoll[q].made =>
              /\ lastPoll[q].ret.kind \in {"Empty", "event"}
              /\ (lastPoll[q].len = 0) <=> (lastPoll[q].ret = Empty)

\* two different events went through the GameBridge in order and one through
\* the child's queue, and on both a poll then found the queue exhausted
C1_Witness ==
    /\ Len(polled["GameBridge"]) = 2
    /\ polled["GameBridge"][1] # polled["GameBridge"][2]
    /\ Len(polled["iframe"]) = 1
    /\ \A q \in Queues : lastPoll[q].made /\ lastPoll[q].ret = Empty

\* C2: the k-th event a poll returns comes from the k-th event enqueued; when
\* that one carried a structured ViewModel the returned ViewModel is a string
\* whose JSON.parse is the original object, and otherwise (a string
\* ViewModel, or none) the returned event equals the enqueued one.
C2_ViewModelRoundTrip ==
    \A q \in Queues : \A k \in 1..Len(polled[q]) :
        LET event == enqueued[q][k]
            got == polled[q][k]
        IN  IF event.ViewModel.kind = "object"
            THEN /\ got.ViewModel.kind = "string"
                 /\ JSONparse(got.ViewModel.str) = event.ViewModel.obj
            ELSE got = event

\* a structured palette and a pre-serialized string were polled from the
\* GameBridge and a structured object from the child's queue
C2_Witness ==
    /\ \E k \in 1..Len(polled["GameBridge"]) :
            enqueued["GameBridge"][k].ViewModel = ObjectViewModel(PaletteModel)
    /\ \E k \in 1..Len(polled["GameBridge"]) :
            /\ enqueued["GameBridge"][k].ViewModel.kind = "string"
            /\ enqueued["GameBridge"][k].ViewModel.str # <<>>
    /\ \E k \in 1..Len(polled["iframe"]) :
            enqueued["iframe"][k].ViewModel.kind = "object"

\* ---------------------------------------------------- lifecycle claims
Before(a, b) ==
    \E m, n \in 1..Len(initOrder) : m < n /\ initOrder[m] = a /\ initOrder[n] = b
Last(order) == order[Len(order)]
Completed(i) == hook[i] = "live" /\ pc[i] = "done"
Pointers == <<currentWasmEventPoller, currentWebEventReceiver>>

\* C3: two instances with the same identifier, the second initializing after
\* the first: once the second has completed its initialization (and while it
\* lives) the two global pointers are owned by exactly one instance.
C3_OneOwnerAfterRemount ==
    \A a, b \in Inst :
        (Before(a, b) /\ uniqueId[a] = uniqueId[b] /\ Completed(b) /\ isReady[b])
        => (currentWasmEventPoller \in Inst /\ currentWebEventReceiver = currentWasmEventPoller)

\* C4: a teardown (onCleanup) or an initialization failure (the catch of
\* initialize) of instance i leaves both global pointers unchanged when they
\* point at another instance's functions.
C4_ForeignPointersKept ==
    [][\A i \in Inst :
          ((onCleanup(i) \/ initializeCatch(i)) /\ currentWasmEventPoller \notin {NoInst, i})
          => Pointers' = Pointers]_vars

\* C5: an instance disposed while its initialization promise was pending has
\* that promise rejected, and the global pointers do not reference its
\* functions from then on.
C5_DisposedPendingRejected ==
    \A i \in Inst :
        (hook[i] = "disposed" /\ disposedPending[i])
        => /\ promise[i][1] = "rejected"
           /\ currentWasmEventPoller # i
           /\ currentWebEventReceiver # i

\* C6: once an instance was torn down with its initialization in flight, no
\* later step on its behalf (its script's steps, the continuation of its
\* initialize) changes the registries, the global pointers, its canvas id,
\* its ready / error state or its visibility observers.
C6_NothingAfterTeardown ==
    [][\A i \in Inst :
          ( /\ hook[i] = "disposed" /\ disposedPending[i]
            /\ \/ initializeResume(i) \/ initializeCatch(i)
               \/ scriptOnError(i) \/ scriptRun(i) \/ scriptInitResolved(i)
               \/ \E m \in ThrownMessages : scriptInitThrew(i, m) )
          => /\ wasmInitPromises' = wasmInitPromises
             /\ wasmBridgeFuncs' = wasmBridgeFuncs
             /\ Pointers' = Pointers
             /\ canvasId'[i] = canvasId[i]
             /\ isReady'[i] = isReady[i]
             /\ error'[i] = error[i]
             /\ visibilityUnsubscribers'[i] = visibilityUnsubscribers[i]]_vars

\* C7: after an initialization failure (the promise rejected, by the loader
\* or because the script failed to load) the instance is in Error with the
\* message, it has no entry in either registry, the global pointers do not
\* reference its functions and its canvas carries its internal id.
C7_FailureCleansUp ==
    \A i \in Inst :
        (Completed(i) /\ promise[i][1] = "rejected")
        => /\ error[i] = <<"Initialization failed: ">> \o Tail(promise[i])
           /\ ~isReady[i]
           /\ wasmInitPromises[uniqueId[i]] # i
           /\ wasmBridgeFuncs[uniqueId[i]] # i
           /\ currentWasmEventPoller # i
           /\ currentWebEventReceiver # i
           /\ canvasId[i] = internalCanvasId(i)

\* C10: instance b initializes after instance a, under an identifier no
\* other instance has: when b has completed and is Ready, and no instance
\* has claimed the pointers since, both pointers target b's functions and
\* not a's.
SoleUserOfId(b) == \A c \in Inst : (c # b /\ hook[c] # "none") => uniqueId[c] # uniqueId[b]

C10_LastClaimerOwns ==
    \A a, b \in Inst :
        ( /\ Before(a, b) /\ Last(initOrder) = b /\ SoleUserOfId(b)
          /\ Completed(b) /\ isReady[b] )
        => /\ currentWasmEventPoller = b /\ currentWebEventReceiver = b
           /\ currentWasmEventPoller # a /\ currentWebEventReceiver # a

\* a is Ready, b (another identifier) initialized after it and is Ready too
C10_Witness ==
    \E a, b \in Inst :
        /\ Before(a, b) /\ Last(initOrder) = b /\ uniqueId[a] # uniqueId[b]
        /\ Completed(a) /\ isReady[a]
        /\ Completed(b) /\ isReady[b]
        /\ currentWasmEventPoller = b

\* ------------------------------------ claims on one initialization
\* C8: when the foreign init() throws the control-flow exception, the hook
\* being the only one under its identifier and not torn down, the hook's
\* promise is fulfilled and the hook ends Ready with no error, and the child
\* document posts IFRAME_READY and no WASM_ERROR; when it throws anything
\* else the hook's promise is rejected and the hook ends in Error with the
\* message, and the child posts WASM_ERROR with the message.
C8_BenignIsReady ==
    /\ \A i \in Inst : (hook[i] = "live" /\ SoleUserOfId(i)) =>
          /\ initResult[i] = "benign" =>
                /\ promise[i] = Fulfilled("null")
                /\ pc[i] = "done" => (isReady[i] /\ error[i] = <<>>)
          /\ initResult[i] = "error" =>
                /\ promise[i] = Rejected(InitError)
                /\ pc[i] = "done" =>
                      (~isReady[i] /\ error[i] = <<"Initialization failed: ">> \o InitError)
    /\ childInitResult = "benign" => posted = <<Message("IFRAME_READY", <<>>)>>
    /\ childInitResult = "error" => posted = <<Message("WASM_ERROR", InitError)>>

\* the hook is Ready after the control-flow exception, and the child has
\* reported ready after it
C8_Witness ==
    /\ \E i \in Inst : initResult[i] = "benign" /\ Completed(i) /\ isReady[i]
    /\ childInitResult = "benign" /\ childPc = "done"

\* C9: an initialize() that read an empty loader path or module path has set
\* the error in that same step and returned: no script was injected, no
\* promise made, the canvas keeps its internal id, and neither a registry
\* entry nor a global pointer is the instance's; a child document with a
\* missing parameter has posted WASM_ERROR and never started the import.
C9_MissingPathsStopInit ==
    /\ \A i \in Inst :
          (pc[i] # "idle" /\ (paths[i].js = "" \/ paths[i].wasm = ""))
          => /\ pc[i] = "returned"
             /\ hook[i] = "live" => error[i] = <<"WASM JS or WASM file path is missing.">>
             /\ ~isReady[i]
             /\ script[i] = "none" /\ promise[i] = <<"none">>
             /\ \A k \in 1..Len(scriptTags) : scriptTags[k] # i
             /\ canvasId[i] = internalCanvasId(i)
             /\ \A id \in Ids : wasmInitPromises[id] # i /\ wasmBridgeFuncs[id] # i
             /\ currentWasmEventPoller # i /\ currentWebEventReceiver # i
    /\ (childPc # "start" /\ (childJsPath = "" \/ childWasmPath = ""))
       => /\ childPc = "done"
          /\ posted = <<Message("WASM_ERROR", <<"Missing jsPath or wasmPath URL parameters.">>)>>
          /\ ~childImported

\* a hook that was given no module path and a child that was given no loader
\* path have both reported
C9_Witness ==
    /\ \E i \in Inst : pc[i] = "returned" /\ paths[i].js # "" /\ paths[i].wasm = ""
                         /\ error[i] # <<>>
    /\ childPc = "done" /\ childJsPath = "" /\ childWasmPath # ""

\* ------------------------------------------------- lifecycle states
\* the lifecycle state of a live instance, read off its signals
LifecycleState(i) ==
    IF error[i] # <<>> THEN "Error"
    ELSE IF isReady[i] THEN "Ready"
    ELSE IF pc[i] = "await" THEN "Initializing"
    ELSE "Uninitialized"

\* the moves of one step; initialize() with a missing path passes through
\* Initializing to Error within its one synchronous call
Moves ==
    { <<"Uninitialized", "Initializing">>, <<"Uninitialized", "Error">>,
      <<"Initializing", "Ready">>, <<"Initializing", "Error">> }

\* C11: while an instance is not torn down, every step either leaves its
\* lifecycle state alone or moves it Uninitialized -> Initializing (-> Error
\* at once when a path is missing), Initializing -> Ready or Initializing ->
\* Error; initialize() starts only on an Uninitialized instance, so at most
\* once; Error is never left and never starts an initialization, and Ready
\* never becomes Error.
C11_LifecycleMoves ==
    [][\A i \in Inst :
          (hook[i] = "live" /\ hook'[i] = "live")
          => /\ (\E js \in JsPaths, wasm \in WasmPaths : initialize(i, js, wasm))
                   => (LifecycleState(i) = "Uninitialized" /\ pc[i] = "idle")
             /\ \/ LifecycleState(i)' = LifecycleState(i)
                \/ <<LifecycleState(i), LifecycleState(i)'>> \in Moves
             /\ (pc[i] # "idle" /\ pc'[i] # pc[i]) => (pc[i] = "await" /\ pc'[i] = "done")]_vars

\* one live instance ended in Error after its loader rejected and another
\* is Ready, both with their initialize() finished
C11_Witness ==
    \E i, j \in Inst :
        /\ Completed(i) /\ LifecycleState(i) = "Error" /\ promise[i][1] = "rejected"
        /\ Completed(j) /\ LifecycleState(j) = "Ready"

\* ------------------------------------------ claims on a disposed bridge
\* C13: after GameBridge.destroy() every later pollJsEvent returns 'Empty',
\* whatever queueEventForWasm and pollJsEvent calls came between.
C13_PollAfterDestroyIsEmpty ==
    [][(bridgeDestroyed[FirstInst] /\ pollJsEvent(FirstInst))
          => lastPoll'["GameBridge"].ret = Empty]_vars

\* C14: a delivery (GameBridge.receiveWasmEvent, or the wrapper's dispatch
\* of a child event) invokes every handler subscribed at the time and lets
\* no handler's exception reach the caller.
C14_EveryHandlerInvoked ==
    lastReceive.by # "none"
    => (~lastReceive.threw /\ lastReceive.invoked = lastReceive.subscribed)

\* ------------------------------------------ claims on the poll entry points
\* C12: no call of a poll entry point handed to the foreign module (the
\* global wasm_event delegate, the import shim's wasm_event of an instance)
\* throws: each returns the next queued event of the instance it resolves to,
\* or 'Empty'.
C12_PollEntryNeverThrows ==
    lastEntryCall.entry # "none" => lastEntryCall.outcome \in {"event", "Empty"}

\* ------------------------------------------------ claims on teardown
\* what the teardown of instance i has released, as seen in the state s
\* the instance's bridge holds, since its teardown
EnqueuedSince(i) == SubSeq(hookEnqueued[i], atDestroy[i].enqueued + 1, Len(hookEnqueued[i]))
PolledSince(i) == SubSeq(hookPolled[i], atDestroy[i].polled + 1, Len(hookPolled[i]))

\* C20: the step that tears an instance down, from whatever lifecycle state,
\* leaves no injected script element with its identifier, no entry under its
\* identifier in either registry, none of its visibility observers, and its
\* bridge's queue and handler list empty; and from then on no script element
\* or registry entry is the instance's, its observers stay removed, and what
\* polls return from its bridge are events enqueued after the teardown, in
\* order (none enqueued before it).
C20_TeardownReleases ==
    /\ [][\A i \in Inst : onCleanup(i) =>
             /\ \A k \in 1..Len(scriptTags') : uniqueId[scriptTags'[k]] # uniqueId[i]
             /\ wasmInitPromises'[uniqueId[i]] = NoInst
             /\ wasmBridgeFuncs'[uniqueId[i]] = NoInst
             /\ visibilityUnsubscribers'[i] = 0
             /\ jsEventQueue'[i] = <<>>
             /\ wasmEventHandlers'[i] = <<>>]_vars
    /\ [](\A i \in Inst : hook[i] = "disposed" =>
             /\ \A k \in 1..Len(scriptTags) : scriptTags[k] # i
             /\ wasmInitPromises[uniqueId[i]] # i
             /\ wasmBridgeFuncs[uniqueId[i]] # i
             /\ visibilityUnsubscribers[i] = 0
             /\ PolledSince(i) \o jsEventQueue[i] = ProcessedAll(EnqueuedSince(i)))

\* an instance was torn down while Ready with an event still queued, and
\* an event enqueued through its interface after that was polled
C20_Witness ==
    \E i \in Inst :
        /\ hook[i] = "disposed" /\ InterfaceHandedOut(i)
        /\ atDestroy[i].enqueued > atDestroy[i].polled
        /\ PolledSince(i) # <<>>

\* ------------------------------------- claims on the cross-realm channel
Payloads(channel) == [k \in 1..Len(channel) |-> channel[k].payload]

\* C15: every envelope the host posts to the child carries the instance
\* identifier, and the child's listener leaves its queue unchanged on an
\* envelope whose identifier is not its own.
C15_EnvelopeCarriesIdentifier ==
    [][/\ \A k \in 1..Len(toChild') : toChild'[k].instanceId = WrapperInstanceId
       /\ (childOnMessage /\ Head(toChild).instanceId # ChildInstanceId)
             => iframeEventQueue' = iframeEventQueue]_vars

\* C17: what the child's polls returned, followed by the child's queue,
\* followed by what the channel still carries, is the sequence of events the
\* wrapper's queueEventForWasm posted, in call order (normalised): the
\* events reach the queue and leave it in the order they were enqueued.
C17_OutboundOrderKept ==
    /\ polled["iframe"] \o iframeEventQueue = ProcessedAll(enqueued["iframe"])
    /\ \E n \in 0..Len(sent) :
          /\ enqueued["iframe"] \o Payloads(toChild) = SubSeq(sent, 1, n)
          /\ wrapper = "mounted" => n = Len(sent)

\* three events, not all equal, were sent; two were polled in order while
\* the third was still on its way or queued
C17_Witness ==
    /\ Len(sent) = MaxEnq /\ sent[1] # sent[2]
    /\ Len(polled["iframe"]) = 2
    /\ Len(iframeEventQueue) + Len(toChild) = Len(sent) - 2

\* C19: while the wrapper is mounted, every event passed to its bridge's
\* queueEventForWasm is once in the channel, in the child's queue or among
\* the events polls returned (none lost, none twice); and with the channel
\* delivering and the foreign module polling, the k-th event sent is
\* eventually returned by the k-th successful poll, unless the wrapper is
\* torn down first.
C19_EachEventPolledOnce ==
    /\ [](wrapper = "mounted" =>
             polled["iframe"] \o iframeEventQueue \o ProcessedAll(Payloads(toChild))
                = ProcessedAll(sent))
    /\ \A k \in 1..MaxEnq :
          (Len(sent) >= k) ~>
              \/ wrapper = "cleaned"
              \/ (Len(polled["iframe"]) >= k /\ polled["iframe"][k] = ProcessedEvent(sent[k]))

\* every event the mounted wrapper sent has been polled, and a poll after
\* that found the queue exhausted
C19_Witness ==
    /\ wrapper = "mounted" /\ Len(sent) = MaxEnq
    /\ polled["iframe"] = ProcessedAll(sent)
    /\ lastPoll["iframe"].ret = Empty /\ lastPoll["iframe"].made

\* the steps in which the wrapper's listener handles the envelope m
ListenerHandles(m) ==
    \/ hostMessageFromChild /\ NextPosted = m
    \/ hostMessageFromStranger(m)

Envelopes ==
    StrangerEnvelopes \cup {posted[k] : k \in 1..Len(posted)}

\* C16: the mounted wrapper with identifier X changes its ready / error
\* state and calls onReady / onError on a child-ready / child-error envelope
\* whose instanceId is X, and on no other envelope; it hands a child-event
\* envelope to its subscribers when the instanceId is X or is missing, and to
\* nobody otherwise.
C16_OnlyOwnEnvelopes ==
    [][\A m \in Envelopes : (wrapper = "mounted" /\ ListenerHandles(m)) =>
          /\ (m.type = "IFRAME_READY" /\ m.instanceId = WrapperInstanceId)
                => (isIframeReady' /\ wrapperError' = <<>> /\ called' = Append(called, "onReady"))
          /\ (m.type = "WASM_ERROR" /\ m.instanceId = WrapperInstanceId)
                => (~isIframeReady' /\ wrapperError' # <<>> /\ called' = Append(called, "onError"))
          /\ (m.type = "WASM_EVENT" \/ m.instanceId # WrapperInstanceId)
                => UNCHANGED <<isIframeReady, wrapperError, called>>
          /\ IF m.type = "WASM_EVENT" /\ m.instanceId \in {WrapperInstanceId, NoId}
             THEN received' = ReceivedAfter(wrapperHandlers, m.event)
             ELSE received' = received]_vars

\* the wrapper is ready after its child's envelope, a subscriber has got an
\* event of the child and a broadcast event, and envelopes of another
\* instance went by
C16_Witness ==
    /\ wrapper = "mounted" /\ isIframeReady /\ called = <<"onReady">>
    /\ strangerPosts = MaxStranger
    /\ \E h \in Handlers :
          /\ \E k \in 1..Len(received[h]) : received[h][k] = StrangerSerial
          /\ \E k \in 1..Len(received[h]) : received[h][k] # StrangerSerial

\* the events of the child's foreign module among those a handler got
ChildEvents(seq) == SelectSeq(seq, LAMBDA n : n # StrangerSerial)

\* C18: every subscriber is invoked with the events of the instance's
\* foreign module in the order the module produced them: the serial numbers
\* a handler has seen never decrease.
C18_InboundOrderKept ==
    \A h \in Handlers :
        LET seen == ChildEvents(received[h]) IN
        \A k, l \in 1..Len(seen) : k < l => seen[k] <= seen[l]

\* one subscriber has seen two events of the module, in order
C18_Witness ==
    \E h \in Handlers : Len(ChildEvents(received[h])) >= 2 /\ emitted >= 2

\* ------------------------------------------------- claims on the canvas id
\* C21: the canvas of an instance carries the fixed identifier the foreign
\* loader looks up only while the instance is live and Initializing: never
\* before initialize() has started, never once the instance is Ready or in
\* Error, and never after its teardown.
C21_FixedIdOnlyWhileInitializing ==
    \A i \in Inst :
        canvasId[i] = requiredCanvasId
        => (hook[i] = "live" /\ LifecycleState(i) = "Initializing")

\* one instance is Ready and back on its own id, and another, torn down
\* while it carried the fixed id with its initialization in flight, is back
\* on its own id too
C21_Witness ==
    \E i, j \in Inst :
        /\ i # j
        /\ Completed(i) /\ isReady[i] /\ canvasId[i] = internalCanvasId(i)
        /\ hook[j] = "disposed" /\ disposedPending[j] /\ canvasId[j] = internalCanvasId(j)

\* ------------------------------------------- claims on the registration
\* the step in which the loader script of instance i is appended to the body
Injects(i) == script[i] = "none" /\ script'[i] = "loading"

\* C22: the step that injects the loader of an instance ends with the
\* instance's poll / receive functions registered under its identifier, both
\* global pointers targeting them, its promise entry registered, and the
\* loader element the last of the body (the global delegates are defined
\* from module load on): the loader, which runs after the step, finds the
\* registration and the claim made.
C22_RegisteredBeforeInjection ==
    [][\A i \in Inst : Injects(i) =>
          /\ wasmBridgeFuncs'[uniqueId[i]] = i
          /\ currentWasmEventPoller' = i /\ currentWebEventReceiver' = i
          /\ wasmInitPromises'[uniqueId[i]] = i
          /\ scriptTags' # <<>> /\ Last(scriptTags') = i]_vars

\* a loader was just injected for an instance that took the pointers over
\* from an instance still Ready
C22_Witness ==
    \E a, b \in Inst :
        /\ Before(a, b) /\ Completed(a) /\ isReady[a]
        /\ script[b] = "loading" /\ pc[b] = "await" /\ promise[b] = <<"pending">>
        /\ currentWasmEventPoller = b /\ wasmBridgeFuncs[uniqueId[b]] = b

\* ------------------------------------------- claims on subscriptions
\* the subscriptions of handler h on bridge b whose unsubscribe function
\* has not been called
ActiveSubscriptions(b, h) ==
    {k \in 1..Len(subscriptions[b]) :
        subscriptions[b][k].handler = h /\ ~subscriptions[b][k].unsubscribed}

C24_ForceCleanupBeforeRegister ==
    [][\A i \in Inst : Injects(i) =>
          LET id == uniqueId[i]
              oldPromise == wasmInitPromises[id]
          IN  /\ (oldPromise # NoInst /\ promise[oldPromise] = <<"pending">>)
                    => /\ promise'[oldPromise] = Rejected(<<"New initialization started">>)
                       /\ microtasks' = Append(microtasks, oldPromise)
              /\ wasmInitPromises'[id] = i /\ wasmBridgeFuncs'[id] = i
              /\ currentWasmEventPoller' = i /\ currentWebEventReceiver' = i
              /\ \A k \in 1..Len(scriptTags') :
                    uniqueId[scriptTags'[k]] = id => scriptTags'[k] = i]_vars

\* an initialization under X has rejected the pending promise of an earlier
\* one under X and holds the entries and the pointers
C24_Witness ==
    \E a, b \in Inst :
        /\ a # b /\ uniqueId[a] = uniqueId[b] /\ Before(a, b)
        /\ promise[a] = Rejected(<<"New initialization started">>)
        /\ promise[b] = <<"pending">>
        /\ wasmInitPromises[uniqueId[b]] = b /\ wasmBridgeFuncs[uniqueId[b]] = b
        /\ currentWasmEventPoller = b

\* ------------------------------------------- claims on the global pointers
\* C25: in every state the two global pointers are both empty or both the
\* functions of one instance, and when set they are the functions of an
\* entry present in the bridge-function registry.
C25_PointersMatchRegistry ==
    /\ currentWebEventReceiver = currentWasmEventPoller
    /\ currentWasmEventPoller # NoInst
          => \E id \in Ids : wasmBridgeFuncs[id] = currentWasmEventPoller

\* C26: at any time at most one canvas carries the fixed identifier the
\* foreign loader looks up.
C26_OneCanvasWithFixedId ==
    Cardinality({i \in Inst : canvasId[i] = requiredCanvasId}) <= 1

\* ------------------------------------------- claims on the loader
\* the steps of the loader script injected for instance i
LoaderStep(i) ==
    \/ scriptOnError(i) \/ scriptRun(i) \/ scriptInitResolved(i)
    \/ \E m \in ThrownMessages : scriptInitThrew(i, m)

\* C27: a step of the loader injected by one initialization settles no
\* promise but the one that initialization created: the promise of every
\* other instance, one that has since registered under the same identifier
\* included, is left as it was.
C27_LoaderSettlesOwnPromise ==
    [][\A i \in Inst : LoaderStep(i) =>
          \A j \in Inst \ {i} : promise'[j] = promise[j]]_vars

\* ------------------------------------------- claims on the child's report
\* the child-ready / child-error notifications among the messages posted
LifecycleNotifications ==
    SelectSeq(posted, LAMBDA m : m.type \in {"IFRAME_READY", "WASM_ERROR"})

\* C28: one run of the child document posts at most one lifecycle
\* notification (child-ready or child-error, never both, never two), it
\* carries the child's instance identifier, and it has been posted exactly
\* when initializeWasm has finished; with the timers firing and the import
\* and the init call settling, it is eventually posted, also when the assets
\* are never preloaded.
C28_OneLifecycleNotification ==
    /\ [](/\ Len(LifecycleNotifications) <= 1
          /\ \A k \in 1..Len(posted) : posted[k].instanceId = ChildInstanceId
          /\ (childPc = "done") <=> (Len(LifecycleNotifications) = 1))
    /\ <>(Len(LifecycleNotifications) = 1)

\* the child reported ready after its wait for the preload had timed out
C28_Witness ==
    /\ childPc = "done" /\ ~modelPreloaded /\ childImported
    /\ posted = <<Message("IFRAME_READY", <<>>)>>

\* ------------------------------------------- claims on the accessor
\* C29: the accessor createWasmCanvas returned gives an interface exactly
\* when the instance has a bridge, is Ready and has no error; it gives null
\* in Uninitialized, Initializing and Error and after teardown.
C29_InterfaceOnlyWhenReady ==
    \A i \in Inst :
        /\ bridgeInterfaceMemo[i] <=> (bridge[i] /\ isReady[i] /\ error[i] = <<>>)
        /\ bridgeInterfaceMemo[i] => (hook[i] = "live" /\ LifecycleState(i) = "Ready")

\* ------------------------------------------- claims on the z-order
Shown == {k \in 1..Len(programs) : ~programs[k].isMinimized}

\* C30: after any sequence of registerProgram, unregisterProgram,
\* minimizeProgram, restoreProgram and bringToFront, the z-indices of the k
\* programs that are not minimized are pairwise distinct and are exactly
\* 1..k, every minimized program has z-index 0, and the program last
\* registered, restored or brought to front, when it is in the store and not
\* minimized, has z-index k.
C30_ZIndicesNormalized ==
    LET k == Cardinality(Shown) IN
    /\ {programs[n].zIndex : n \in Shown} = 1..k
    /\ \A m, n \in Shown : m # n => programs[m].zIndex # programs[n].zIndex
    /\ \A n \in 1..Len(programs) : programs[n].isMinimized => programs[n].zIndex = 0
    /\ \A n \in Shown : programs[n].id = lastRaised => programs[n].zIndex = k

\* of three programs one is minimized and the first registered was brought
\* in front of the last registered
C30_Witness ==
    /\ Len(programs) = MaxPrograms
    /\ \E n \in 1..Len(programs) : programs[n].isMinimized
    /\ Cardinality(Shown) = MaxPrograms - 1
    /\ lastRaised = programs[1].id /\ ~programs[1].isMinimized
    /\ programs[1].zIndex = MaxPrograms - 1

====
